---- MODULE Spec2Model ----
(***************************************************************************)
(* Model of the browser-zoom / stream-acquisition bootstrap of the        *)
(* Office-On-Web extension (src/scripts/main.js): BrowserApi, its factory *)
(* functions, the page-global browser_api promise and its consumer.        *)
(*                                                                         *)
(* One action is one task of the event loop: a host callback together     *)
(* with every promise reaction (microtask) that runs before the next task. *)
(* Zoom factors are written in percent (1.0 is 100, 1.25 is 125).          *)
(* URLs are sequences of tokens; "http", "?", "&", "#" and                 *)
(* "edgeRedirected" are tokens of their own.                               *)
(***************************************************************************)
EXTENDS Integers, Sequences, FiniteSets, TLC

\* ---- bounds -------------------------------------------------------------
MaxTabId == 1
MaxSetZoom == 1
MaxListeners == 1
MaxEvents == 1
MaxEventsInOrder == 2
MaxWriteEnds == 2
MaxFileLen == 1

\* ---- program constants --------------------------------------------------
NONE == 0
MANAGE == 1
PROPAGATE_PARENT == 2
NoTabId == -1
One == 100
PrintOrigin == "chrome://print"

\* ---- input domains ------------------------------------------------------
TabIds == (0 - 2) .. MaxTabId
HostZooms == {100, 125}
Origins == {PrintOrigin, "chrome-extension://viewer"}
NoTab == [present |-> FALSE, url |-> "none"]
Tabs == {NoTab, [present |-> TRUE, url |-> "taburl"]}
Unset == "unset"
NoApi == [made |-> FALSE]
\* location.search is empty or starts with "?"
Searches == { << >>,
              <<"?", "file=report.csv">>,
              <<"?", "http", "a">> }
Locations == [search : Searches, top : BOOLEAN]
Urls == { <<"http", "a">>,
          <<"http", "a", "?", "b">>,
          <<"http", "a", "?", "edgeRedirected">>,
          <<"http", "a", "?", "b", "?", "c">>,
          <<"http", "a", "#", "f">>,
          <<"file", "a">> }

\* chrome.runtime.lastError.message after chooseEntry; "none" is no error
LastErrors == {"none", "User cancelled", "other"}
\* a write-end event: event.currentTarget.error, writer.length and
\* event.currentTarget.position at the time the handler runs
WriteEnds == [error : BOOLEAN, length : 0..MaxFileLen, position : 0..MaxFileLen]
\* the save-as writer before the save button is used
NoSave == [ stage |-> "idle", lastError |-> "none", hasResult |-> FALSE,
            hasResolver |-> FALSE, logged |-> FALSE, writerCreated |-> FALSE,
            writes |-> 0, ends |-> << >>, truncates |-> << >>,
            paths |-> << >>, saved |-> << >> ]
NoUi000 == [ branch |-> "none", viewerSrc |-> << >>, tabRemoved |-> FALSE,
             originalUrl |-> << >>, call |-> "none" ]

VARIABLES
  origin,        \* location.origin of the page
  location,      \* location.search of the page, and whether it is the top window
  hasTabs,       \* chrome.tabs exists in this environment
  hasAssert,     \* a global assert function is defined in the page
  saveAs,        \* the save-as writer: chooseEntry, createWriter, write-end events
  host,          \* what the host answers: stream info, tab, zoom factors
  pc,            \* position of the bootstrap
  path,          \* which factory the page-global bootstrap ran
  streamInfo,    \* the streamInfo object (shared by reference)
  zoomBehavior,  \* local zoomBehavior of the mime-handler closure
  pending,       \* host calls issued whose callback has not fired
  log,           \* host calls issued / called back, in order
  zoomFactors,   \* results of the two lookups given to Promise.all
  browserApi,    \* the descriptor, NoApi before construction
  constructed,   \* number of BrowserApi constructor runs
  consumerRuns,  \* number of runs of the browser_api.then consumer
  ui,            \* what the consumer did
  ui000,         \* what the consumer of the part_000 variant does, run side by side
  zoomListeners, \* addZoomEventListener calls, and whether each registered
  invoked,       \* listener invocations
  events,        \* zoom-change events delivered by the host
  setZoomCalls,  \* setZoom calls made on the descriptor, with outcome
  hostSetZoom    \* chrome.tabs.setZoom host calls issued

vars == << origin, location, hasTabs, hasAssert, saveAs, host, pc, path, streamInfo,
           zoomBehavior, pending, log, zoomFactors, browserApi, constructed,
           consumerRuns, ui, ui000, zoomListeners, invoked, events, setZoomCalls,
           hostSetZoom >>

\* ---- helpers ------------------------------------------------------------
Issue(call, tabId) == [ev |-> "issue", call |-> call, tabId |-> tabId]
Callback(call, tabId) == [ev |-> "callback", call |-> call, tabId |-> tabId]

\* String.prototype.indexOf on token sequences: 0-based, -1 when absent.
indexOf(s, t) ==
  IF \E i \in 1..Len(s) : s[i] = t
  THEN (CHOOSE i \in 1..Len(s) : s[i] = t /\ \A j \in 1..(i-1) : s[j] # t) - 1
  ELSE -1

\* originalUrl.split('?')[1]: the text between the first and second '?'.
splitQuery1(s) ==
  LET q == indexOf(s, "?") + 1
      rest == SubSeq(s, q + 1, Len(s))
      q2 == indexOf(rest, "?")
  IN IF q2 = -1 THEN rest ELSE SubSeq(rest, 1, q2)

IsWebURL(ulr_str) == indexOf(ulr_str, "http") = 0

isAlreadyRedirected(originalUrl) ==
  IF indexOf(originalUrl, "?") >= 0
  THEN indexOf(splitQuery1(originalUrl), "edgeRedirected") # -1
  ELSE FALSE

\* variant: the URL is returned without the marker
addRedirectedQueryParam_unmarked(originalUrl) == originalUrl

addRedirectedQueryParam(originalUrl) ==
  IF indexOf(originalUrl, "?") >= 0
  THEN originalUrl \o <<"&", "edgeRedirected">>
  ELSE originalUrl \o <<"?", "edgeRedirected">>

\* lookupDefaultZoom / lookupInitialZoom: the value the promise resolves to
\* at once, or Waiting when a host call is issued.
Resolved(v) == [resolved |-> TRUE, value |-> v]
Waiting == [resolved |-> FALSE, value |-> 0]

\* variant: the tabId < 0 test is missing
lookupDefaultZoom_noTabTest(si) ==
  IF ~hasTabs THEN Resolved(One) ELSE Waiting

lookupDefaultZoom(si) ==
  IF ~hasTabs \/ si.tabId < 0 THEN Resolved(One) ELSE Waiting

\* variant: no host call is issued for the initial zoom
lookupInitialZoom_skipped(si) == Resolved(One)

\* variant: the tabId < 0 test is missing
lookupInitialZoom_noTabTest(si) ==
  IF ~hasTabs THEN Resolved(One) ELSE Waiting

lookupInitialZoom(si) ==
  IF ~hasTabs \/ si.tabId < 0 THEN Resolved(One) ELSE Waiting

\* createBrowserApi: the factory the origin selects.
createBrowserApi(o) == IF o = PrintOrigin THEN "print" ELSE "mime"

\* assert(cond, msg): returns normally iff assert is defined and cond holds.
assert(cond) == hasAssert /\ cond

TypeOK ==
  /\ origin \in Origins
  /\ hasTabs \in BOOLEAN
  /\ hasAssert \in BOOLEAN
  /\ location \in Locations
  /\ pc \in {"init", "getStreamInfo", "getCurrent", "aux", "zoom", "done",
            "rejected", "threw"}
  /\ path \in {"none", "mime", "print"}
  /\ zoomBehavior \in {NONE, MANAGE, PROPAGATE_PARENT}
  /\ constructed \in Nat
  /\ consumerRuns \in Nat

\* the page after its scripts have run, before any host callback
InitBootstrap ==
  /\ origin \in Origins
  /\ location \in Locations
  /\ hasTabs \in BOOLEAN
  /\ hasAssert \in BOOLEAN
  /\ host \in [ tabId : TabIds, embedded : BOOLEAN, originalUrl : Urls,
                tab : Tabs, defaultZoomFactor : HostZooms, zoom : HostZooms ]
  /\ pc = "init"
  /\ path = "none"
  /\ streamInfo = Unset
  /\ zoomBehavior = NONE
  /\ pending = {}
  /\ log = << >>
  /\ zoomFactors = << Waiting, Waiting >>
  /\ browserApi = NoApi
  /\ constructed = 0
  /\ consumerRuns = 0
  /\ ui = [branch |-> "none", viewerSrc |-> << >>, tabRemoved |-> FALSE]
  /\ ui000 = NoUi000
  /\ zoomListeners = << >>
  /\ invoked = << >>
  /\ events = << >>
  /\ setZoomCalls = << >>
  /\ hostSetZoom = << >>

Init == InitBootstrap /\ saveAs = NoSave

\* ---- the consumer of browser_api (browser_api.then) ---------------------
Consumer(si, lg, pend) ==
  /\ consumerRuns' = consumerRuns + 1
  /\ IF ~IsWebURL(si.originalUrl)
     THEN /\ streamInfo' = si
          /\ ui' = [ui EXCEPT !.branch = "fallback"]
          /\ pending' = pend
          /\ log' = Append(lg, Issue("download.nocallback", si.tabId))
     ELSE IF isAlreadyRedirected(si.originalUrl)
     THEN /\ streamInfo' = si
          /\ ui' = [ui EXCEPT !.branch = "download"]
          /\ pending' = pend \cup {"download"}
          /\ log' = Append(lg, Issue("download", si.tabId))
     ELSE LET marked == addRedirectedQueryParam(si.originalUrl) IN
          /\ streamInfo' = [si EXCEPT !.originalUrl = marked]
          /\ ui' = [ui EXCEPT !.branch = "viewer", !.viewerSrc = marked]
          /\ pending' = pend
          /\ log' = lg

\* variant: the already-redirected test is missing
consumerBranch000_noRedirectTest(url) ==
  IF ~IsWebURL(url) THEN "fallback" ELSE "viewer"

\* the branch the consumer of part_000 takes
consumerBranch000(url) ==
  IF ~IsWebURL(url) THEN "fallback"
  ELSE IF isAlreadyRedirected(url) THEN "download"
  ELSE "viewer"

\* the consumer of browser_api in part_000, given the same descriptor
Consumer000(si) ==
  LET b == consumerBranch000(si.originalUrl)
      marked == addRedirectedQueryParam(si.originalUrl)
  IN ui000' =
       [ branch |-> b,
         viewerSrc |-> IF b = "viewer" THEN marked ELSE << >>,
         tabRemoved |-> FALSE,
         originalUrl |-> IF b = "viewer" THEN marked ELSE si.originalUrl,
         call |-> IF b = "fallback" THEN "fetch"
                  ELSE IF b = "download" THEN "download" ELSE "none" ]

\* variant: the two zoom factors are exchanged
BrowserApiCtor_exchanged(defaultZoom, initialZoom, zb) ==
  [ made |-> TRUE, streamInfo_ |-> "streamInfo", defaultZoom_ |-> initialZoom,
    initialZoom_ |-> defaultZoom, zoomBehavior_ |-> zb ]

\* new BrowserApi(streamInfo, defaultZoom, initialZoom, zoomBehavior)
BrowserApiCtor(defaultZoom, initialZoom, zb) ==
  [ made |-> TRUE, streamInfo_ |-> "streamInfo", defaultZoom_ |-> defaultZoom,
    initialZoom_ |-> initialZoom, zoomBehavior_ |-> zb ]

\* variant: fulfilled as soon as one lookup has resolved (Promise.race)
allResolved_any(zf) == zf[1].resolved \/ zf[2].resolved

\* variant: only the default-zoom lookup is waited for
allResolved_first(zf) == zf[1].resolved

\* Promise.all(zoomFactors) is fulfilled when both lookups have resolved.
allResolved(zf) == zf[1].resolved /\ zf[2].resolved

\* The reaction of BrowserApi.create's Promise.all, then the consumer.
Deliver(si, zf, zb, lg, pend) ==
  /\ browserApi' = BrowserApiCtor(zf[1].value, zf[2].value, zb)
  /\ constructed' = constructed + 1
  /\ zoomFactors' = zf
  /\ pc' = "done"
  /\ Consumer(si, lg, pend)
  /\ Consumer000(si)

\* BrowserApi.create(streamInfo, zoomBehavior)
create(si, zb, lg, pend) ==
  LET d == lookupDefaultZoom(si)
      i == lookupInitialZoom(si)
      zf == << d, i >>
      lg2 == lg \o (IF d.resolved THEN << >>
                    ELSE << Issue("getZoomSettings", si.tabId) >>)
                \o (IF i.resolved THEN << >>
                    ELSE << Issue("getZoom", si.tabId) >>)
      pend2 == pend \cup (IF d.resolved THEN {} ELSE {"getZoomSettings"})
                    \cup (IF i.resolved THEN {} ELSE {"getZoom"})
  IN IF allResolved(zf)
     THEN Deliver(si, zf, zb, lg2, pend2)
     ELSE /\ zoomFactors' = zf
          /\ pc' = "zoom"
          /\ streamInfo' = si
          /\ log' = lg2
          /\ pending' = pend2
          /\ UNCHANGED << browserApi, constructed, consumerRuns, ui, ui000 >>

\* ---- createBrowserApiForMimeHandlerView ---------------------------------
\* variant: the tabId test is missing
zoomBehaviorFor_noTabTest(si) ==
  IF si.embedded THEN PROPAGATE_PARENT ELSE MANAGE

\* variant: the two arms of the conditional are exchanged
zoomBehaviorFor_exchanged(si) ==
  IF si.tabId # NoTabId
  THEN IF si.embedded THEN MANAGE ELSE PROPAGATE_PARENT
  ELSE NONE

\* let zoomBehavior = NONE; if (tabId !== -1) zoomBehavior = embedded ? ...
zoomBehaviorFor(si) ==
  IF si.tabId # NoTabId
  THEN IF si.embedded THEN PROPAGATE_PARENT ELSE MANAGE
  ELSE NONE

\* variant: the zoom-mode configuration call is never pushed
auxCalls_noZoomSettings(si, zb) ==
  IF si.tabId # NoTabId THEN << "tabs.get" >> ELSE << >>

\* variant: the tab lookup is issued a second time
auxCalls_retry(si, zb) ==
  (IF si.tabId # NoTabId THEN << "tabs.get", "tabs.get" >> ELSE << >>)
  \o (IF zb = MANAGE THEN << "setZoomSettings" >> ELSE << >>)

\* variant: the zoom mode is configured for every behavior but NONE
auxCalls_anyBehavior(si, zb) ==
  (IF si.tabId # NoTabId THEN << "tabs.get" >> ELSE << >>)
  \o (IF zb # NONE THEN << "setZoomSettings" >> ELSE << >>)

\* the host calls pushed onto promises, in the order they are issued
auxCalls(si, zb) ==
  (IF si.tabId # NoTabId THEN << "tabs.get" >> ELSE << >>)
  \o (IF zb = MANAGE THEN << "setZoomSettings" >> ELSE << >>)

AuxNames == {"tabs.get", "setZoomSettings"}

\* variant: the zoom lookups do not wait for the pushed promises
auxSettled_noWait(pend) == TRUE

\* variant: only the tab lookup is waited for
auxSettled_tabOnly(pend) == "tabs.get" \notin pend

\* Promise.all(promises) is fulfilled when no pushed promise is pending.
auxSettled(pend) == pend \cap AuxNames = {}
SeqRange(s) == { s[k] : k \in 1..Len(s) }

\* browser_api = createBrowserApiForMimeHandlerView(); browser_api.then(...)
Start ==
  /\ pc = "init"
  /\ path' = "mime"
  /\ pc' = "getStreamInfo"
  /\ pending' = {"getStreamInfo"}
  /\ log' = << Issue("getStreamInfo", NoTabId) >>
  /\ UNCHANGED << origin, location, hasTabs, hasAssert, saveAs,
                  host, streamInfo, zoomBehavior,
                  zoomFactors, browserApi, constructed, consumerRuns, ui, ui000,
                  zoomListeners, invoked, events, setZoomCalls, hostSetZoom >>

GetStreamInfoCallback ==
  /\ "getStreamInfo" \in pending
  /\ LET si == [ tabId |-> host.tabId, embedded |-> host.embedded,
                 originalUrl |-> host.originalUrl, tabUrl |-> Unset ]
         zb == zoomBehaviorFor(si)
         aux == auxCalls(si, zb)
         lg == Append(log, Callback("getStreamInfo", NoTabId))
         pend == pending \ {"getStreamInfo"}
     IN /\ zoomBehavior' = zb
        /\ IF aux # << >> /\ ~hasTabs
           THEN \* chrome.tabs is undefined: the executors throw, every pushed
                \* promise is rejected and so is browser_api
                /\ pc' = "rejected"
                /\ streamInfo' = si
                /\ log' = lg
                /\ pending' = pend
                /\ UNCHANGED << zoomFactors, browserApi, constructed,
                                consumerRuns, ui, ui000 >>
           ELSE IF aux # << >>
           THEN /\ pc' = "aux"
                /\ streamInfo' = si
                /\ log' = lg \o [k \in 1..Len(aux) |-> Issue(aux[k], si.tabId)]
                /\ pending' = pend \cup SeqRange(aux)
                /\ UNCHANGED << zoomFactors, browserApi, constructed,
                                consumerRuns, ui, ui000 >>
           ELSE create(si, zb, lg, pend)
  /\ UNCHANGED << origin, location, hasTabs, hasAssert, saveAs,
                  host, path, zoomListeners,
                  invoked, events, setZoomCalls, hostSetZoom >>

\* callback of chrome.tabs.get and its reaction (if (tab) tabUrl = tab.url)
TabsGetCallback ==
  /\ "tabs.get" \in pending
  /\ LET si == IF host.tab.present
               THEN [streamInfo EXCEPT !.tabUrl = host.tab.url]
               ELSE streamInfo
         lg == Append(log, Callback("tabs.get", streamInfo.tabId))
         pend == pending \ {"tabs.get"}
     IN IF auxSettled(pend)
        THEN create(si, zoomBehavior, lg, pend)
        ELSE /\ streamInfo' = si
             /\ log' = lg
             /\ pending' = pend
             /\ UNCHANGED << pc, zoomFactors, browserApi, constructed,
                             consumerRuns, ui, ui000 >>
  /\ UNCHANGED << origin, location, hasTabs, hasAssert, saveAs,
                  host, path, zoomBehavior,
                  zoomListeners, invoked, events, setZoomCalls, hostSetZoom >>

\* callback of chrome.tabs.setZoomSettings
SetZoomSettingsCallback ==
  /\ "setZoomSettings" \in pending
  /\ LET lg == Append(log, Callback("setZoomSettings", streamInfo.tabId))
         pend == pending \ {"setZoomSettings"}
     IN IF auxSettled(pend)
        THEN create(streamInfo, zoomBehavior, lg, pend)
        ELSE /\ log' = lg
             /\ pending' = pend
             /\ UNCHANGED << pc, streamInfo, zoomFactors, browserApi,
                             constructed, consumerRuns, ui, ui000 >>
  /\ UNCHANGED << origin, location, hasTabs, hasAssert, saveAs,
                  host, path, zoomBehavior,
                  zoomListeners, invoked, events, setZoomCalls, hostSetZoom >>

\* callback of chrome.tabs.getZoomSettings: resolve(defaultZoomFactor)
GetZoomSettingsCallback ==
  /\ "getZoomSettings" \in pending
  /\ LET zf == [zoomFactors EXCEPT ![1] = Resolved(host.defaultZoomFactor)]
         lg == Append(log, Callback("getZoomSettings", streamInfo.tabId))
         pend == pending \ {"getZoomSettings"}
     IN IF allResolved(zf)
        THEN Deliver(streamInfo, zf, zoomBehavior, lg, pend)
        ELSE /\ zoomFactors' = zf
             /\ log' = lg
             /\ pending' = pend
             /\ UNCHANGED << pc, streamInfo, browserApi, constructed,
                             consumerRuns, ui, ui000 >>
  /\ UNCHANGED << origin, location, hasTabs, hasAssert, saveAs,
                  host, path, zoomBehavior,
                  zoomListeners, invoked, events, setZoomCalls, hostSetZoom >>

\* callback of chrome.tabs.getZoom: resolve(zoomFactor)
GetZoomCallback ==
  /\ "getZoom" \in pending
  /\ LET zf == [zoomFactors EXCEPT ![2] = Resolved(host.zoom)]
         lg == Append(log, Callback("getZoom", streamInfo.tabId))
         pend == pending \ {"getZoom"}
     IN IF allResolved(zf)
        THEN Deliver(streamInfo, zf, zoomBehavior, lg, pend)
        ELSE /\ zoomFactors' = zf
             /\ log' = lg
             /\ pending' = pend
             /\ UNCHANGED << pc, streamInfo, browserApi, constructed,
                             consumerRuns, ui, ui000 >>
  /\ UNCHANGED << origin, location, hasTabs, hasAssert, saveAs,
                  host, path, zoomBehavior,
                  zoomListeners, invoked, events, setZoomCalls, hostSetZoom >>

\* callback of chrome.downloads.download: chrome.tabs.remove(tabId)
DownloadCallback ==
  /\ "download" \in pending
  /\ pending' = pending \ {"download"}
  /\ log' = Append(log, Callback("download", streamInfo.tabId))
  /\ ui' = [ui EXCEPT !.tabRemoved = TRUE]
  /\ ui000' = IF ui000.call = "download"
              THEN [ui000 EXCEPT !.tabRemoved = TRUE] ELSE ui000
  /\ UNCHANGED << origin, location, hasTabs, hasAssert, saveAs,
                  host, pc, path, streamInfo,
                  zoomBehavior, zoomFactors, browserApi, constructed,
                  consumerRuns, zoomListeners, invoked, events, setZoomCalls,
                  hostSetZoom >>

\* ---- createBrowserApiForPrintPreview ------------------------------------
\* String.prototype.substring(1): the text without its first character
substring1(s) == SubSeq(s, 2, Len(s))

\* variant: the leading "?" is not removed
printStreamInfo_wholeSearch(loc) ==
  [ streamUrl |-> loc.search,
    originalUrl |-> loc.search,
    responseHeaders |-> {},
    embedded |-> ~loc.top,
    tabId |-> NoTabId,
    tabUrl |-> Unset ]

\* the streamInfo literal built from the page's own URL
printStreamInfo(loc) ==
  [ streamUrl |-> substring1(loc.search),
    originalUrl |-> substring1(loc.search),
    responseHeaders |-> {},
    embedded |-> ~loc.top,
    tabId |-> NoTabId,
    tabUrl |-> Unset ]

\* if (!chrome.tabs) { resolve(); return; }
\* variant: the current tab is never asked for
skipsCurrentTab_always == TRUE

skipsCurrentTab == ~hasTabs

\* createBrowserApiForPrintPreview(), and the reactions that follow at once
StartPrintPreview ==
  /\ pc = "init"
  /\ path' = "print"
  /\ LET si == printStreamInfo(location)
     IN IF skipsCurrentTab
        THEN create(si, NONE, << >>, {})
        ELSE /\ pc' = "getCurrent"
             /\ streamInfo' = si
             /\ pending' = {"getCurrent"}
             /\ log' = << Issue("getCurrent", NoTabId) >>
             /\ UNCHANGED << zoomFactors, browserApi, constructed,
                             consumerRuns, ui, ui000 >>
  /\ UNCHANGED << origin, location, hasTabs, hasAssert, saveAs, host, zoomBehavior,
                  zoomListeners, invoked, events, setZoomCalls, hostSetZoom >>

\* callback of chrome.tabs.getCurrent: tabId = tab.id; tabUrl = tab.url
GetCurrentCallback ==
  /\ "getCurrent" \in pending
  /\ LET lg == Append(log, Callback("getCurrent", NoTabId))
         pend == pending \ {"getCurrent"}
     IN IF ~host.tab.present
        THEN \* tab is undefined: tab.id throws inside the host callback and
             \* resolve() is never reached
             /\ pc' = "threw"
             /\ log' = lg
             /\ pending' = pend
             /\ UNCHANGED << streamInfo, zoomFactors, browserApi, constructed,
                             consumerRuns, ui, ui000 >>
        ELSE create([streamInfo EXCEPT !.tabId = host.tabId,
                                       !.tabUrl = host.tab.url],
                    NONE, lg, pend)
  /\ UNCHANGED << origin, location, hasTabs, hasAssert, saveAs, host, path,
                  zoomBehavior, zoomListeners, invoked, events, setZoomCalls,
                  hostSetZoom >>

\* browser_api = createBrowserApi(): the factory the origin selects is run
createBrowserApiStart ==
  IF createBrowserApi(origin) = "print" THEN StartPrintPreview ELSE Start

\* ---- operations of the descriptor ---------------------------------------
\* variant: the zoom that was set is remembered as the initial zoom
setZoom_storesZoom(zoom) ==
  /\ browserApi.made
  /\ Len(setZoomCalls) < MaxSetZoom
  /\ IF assert(browserApi.zoomBehavior_ = MANAGE)
     THEN /\ hostSetZoom' = Append(hostSetZoom,
                               [tabId |-> streamInfo.tabId, zoom |-> zoom])
          /\ setZoomCalls' = Append(setZoomCalls,
                               [zoom |-> zoom, outcome |-> "promise"])
          /\ browserApi' = [browserApi EXCEPT !.initialZoom_ = zoom]
     ELSE /\ hostSetZoom' = hostSetZoom
          /\ setZoomCalls' = Append(setZoomCalls,
                               [zoom |-> zoom, outcome |-> "throw"])
          /\ browserApi' = browserApi
  /\ UNCHANGED << origin, location, hasTabs, hasAssert, saveAs, host, pc, path,
                  streamInfo, zoomBehavior, pending, log, zoomFactors,
                  constructed, consumerRuns, ui, ui000, zoomListeners, invoked,
                  events >>

\* variant: the assert is missing
setZoom_noAssert(zoom) ==
  /\ browserApi.made
  /\ Len(setZoomCalls) < MaxSetZoom
  /\ hostSetZoom' = Append(hostSetZoom,
                       [tabId |-> streamInfo.tabId, zoom |-> zoom])
  /\ setZoomCalls' = Append(setZoomCalls,
                       [zoom |-> zoom, outcome |-> "promise"])
  /\ UNCHANGED << origin, location, hasTabs, hasAssert, saveAs,
                  host, pc, path, streamInfo,
                  zoomBehavior, pending, log, zoomFactors, browserApi,
                  constructed, consumerRuns, ui, ui000, zoomListeners, invoked,
                  events >>

\* BrowserApi.setZoom(zoom)
setZoom(zoom) ==
  /\ browserApi.made
  /\ Len(setZoomCalls) < MaxSetZoom
  /\ IF assert(browserApi.zoomBehavior_ = MANAGE)
     THEN /\ hostSetZoom' = Append(hostSetZoom,
                               [tabId |-> streamInfo.tabId, zoom |-> zoom])
          /\ setZoomCalls' = Append(setZoomCalls,
                               [zoom |-> zoom, outcome |-> "promise"])
     ELSE /\ hostSetZoom' = hostSetZoom
          /\ setZoomCalls' = Append(setZoomCalls,
                               [zoom |-> zoom, outcome |-> "throw"])
  /\ UNCHANGED << origin, location, hasTabs, hasAssert, saveAs,
                  host, pc, path, streamInfo,
                  zoomBehavior, pending, log, zoomFactors, browserApi,
                  constructed, consumerRuns, ui, ui000, zoomListeners, invoked,
                  events >>

\* callback of chrome.tabs.setZoom: the promise of setZoom resolves
SetZoomCallback(n) ==
  /\ n \in 1..Len(setZoomCalls)
  /\ setZoomCalls[n].outcome = "promise"
  /\ setZoomCalls' = [setZoomCalls EXCEPT ![n].outcome = "resolved"]
  /\ UNCHANGED << origin, location, hasTabs, hasAssert, saveAs,
                  host, pc, path, streamInfo,
                  zoomBehavior, pending, log, zoomFactors, browserApi,
                  constructed, consumerRuns, ui, ui000, zoomListeners, invoked,
                  events, hostSetZoom >>

\* variant: the zoomBehavior guard is missing
registers_always(zb) == TRUE

\* the guard of addZoomEventListener: does it register with the host?
registers(zb) == zb = MANAGE \/ zb = PROPAGATE_PARENT

\* BrowserApi.addZoomEventListener(listener)
addZoomEventListener(listener) ==
  /\ browserApi.made
  /\ Len(zoomListeners) < MaxListeners
  /\ zoomListeners' = Append(zoomListeners,
        [listener |-> listener, added |-> registers(browserApi.zoomBehavior_)])
  /\ UNCHANGED << origin, location, hasTabs, hasAssert, saveAs,
                  host, pc, path, streamInfo,
                  zoomBehavior, pending, log, zoomFactors, browserApi,
                  constructed, consumerRuns, ui, ui000, invoked, events,
                  setZoomCalls, hostSetZoom >>

\* variant: the tab id comparison is inverted
passesTabFilter_inverted(info, ownTabId) == info.tabId # ownTabId

\* variant: the tab id comparison is missing
passesTabFilter_all(info, ownTabId) == TRUE

\* the arrow function given to onZoomChange: is the listener called?
passesTabFilter(info, ownTabId) == ~(info.tabId # ownTabId)

\* the host delivers a zoom-change event to every registered listener
ZoomChangeEventUpTo(info, max) ==
  /\ Len(events) < max
  /\ LET regs == SelectSeq(zoomListeners, LAMBDA r : r.added)
         hit == IF regs = << >> THEN << >>
                ELSE SelectSeq(regs,
                       LAMBDA r : passesTabFilter(info, streamInfo.tabId))
     IN invoked' = invoked \o
          [k \in 1..Len(hit) |->
             [ listener |-> hit[k].listener, event |-> Len(events) + 1,
               eventTab |-> info.tabId, ownTab |-> streamInfo.tabId,
               factor |-> info.newZoomFactor ]]
        /\ events' = Append(events, [info |-> info, regs |-> Len(regs),
                                     calls |-> Len(zoomListeners)])
  /\ UNCHANGED << origin, location, hasTabs, hasAssert, saveAs,
                  host, pc, path, streamInfo,
                  zoomBehavior, pending, log, zoomFactors, browserApi,
                  constructed, consumerRuns, ui, ui000, zoomListeners, setZoomCalls,
                  hostSetZoom >>

ZoomChangeEvent(info) == ZoomChangeEventUpTo(info, MaxEvents)
ZoomChangeEventInOrder(info) == ZoomChangeEventUpTo(info, MaxEventsInOrder)

Listeners == {"listener"}
ZoomInfos == [tabId : TabIds, newZoomFactor : HostZooms]

\* the bootstrap of one page load and its consumer
Next ==
  \/ Start
  \/ GetStreamInfoCallback
  \/ TabsGetCallback
  \/ SetZoomSettingsCallback
  \/ GetZoomSettingsCallback
  \/ GetZoomCallback
  \/ DownloadCallback

Spec == Init /\ [][Next]_vars

\* the bootstrap followed by uses of the descriptor (setZoom,
\* addZoomEventListener) and zoom-change events from the host; the host
\* answers that no descriptor operation reads are fixed
ApiUrls == { <<"http", "a">>, <<"http", "a", "?", "edgeRedirected">> }

InitApi ==
  /\ Init
  /\ origin # PrintOrigin
  /\ location = [search |-> << >>, top |-> TRUE]
  /\ host.originalUrl \in ApiUrls
  /\ host.tab.present
  /\ host.defaultZoomFactor = 125
  /\ host.zoom = 100

NextApi ==
  \/ Next
  \/ \E zoom \in HostZooms : setZoom(zoom)
  \/ \E n \in 1..MaxSetZoom : SetZoomCallback(n)
  \/ \E listener \in Listeners : addZoomEventListener(listener)
  \/ \E info \in ZoomInfos : ZoomChangeEvent(info)

SpecApi == InitApi /\ [][NextApi]_vars

\* the bootstrap as createBrowserApi() runs it: print preview for the
\* reserved origin, mime handler otherwise
NextFactory ==
  \/ createBrowserApiStart
  \/ GetStreamInfoCallback
  \/ GetCurrentCallback
  \/ TabsGetCallback
  \/ SetZoomSettingsCallback
  \/ GetZoomSettingsCallback
  \/ GetZoomCallback
  \/ DownloadCallback

SpecFactory == Init /\ [][NextFactory]_vars

\* either bootstrap followed by listener registrations and a longer run of
\* zoom-change events; the inputs the listeners never read are fixed
InitListen ==
  /\ Init
  /\ hasAssert
  /\ location = [search |-> <<"?", "file=report.csv">>, top |-> TRUE]
  /\ host.originalUrl = <<"http", "a">>
  /\ host.tab.present
  /\ host.defaultZoomFactor = 125
  /\ host.zoom = 100

NextListen ==
  \/ createBrowserApiStart
  \/ GetStreamInfoCallback
  \/ GetCurrentCallback
  \/ TabsGetCallback
  \/ SetZoomSettingsCallback
  \/ GetZoomSettingsCallback
  \/ GetZoomCallback
  \/ \E listener \in Listeners : addZoomEventListener(listener)
  \/ \E info \in ZoomInfos : ZoomChangeEventInOrder(info)

SpecListen == InitListen /\ [][NextListen]_vars

\* ---- executeSaveAs / writeUsingEntry ------------------------------------
bootVars == << origin, location, hasTabs, hasAssert, host, pc, path,
               streamInfo, zoomBehavior, pending, log, zoomFactors,
               browserApi, constructed, consumerRuns, ui, ui000,
               zoomListeners, invoked, events, setZoomCalls, hostSetZoom >>

\* executeSaveAs(fileName): chrome.fileSystem.chooseEntry(..., writeUsingEntry)
executeSaveAs ==
  /\ saveAs.stage = "idle"
  /\ saveAs' = [saveAs EXCEPT !.stage = "choosing"]
  /\ UNCHANGED bootVars

\* writeUsingEntry(entry), with chrome.runtime.lastError as the host set it
writeUsingEntry(lastError) ==
  /\ saveAs.stage = "choosing"
  /\ IF lastError # "none"
     THEN saveAs' = [saveAs EXCEPT !.stage = "failed",
                                   !.lastError = lastError,
                                   !.logged = (lastError # "User cancelled")]
     ELSE saveAs' = [saveAs EXCEPT !.stage = "creating"]
  /\ UNCHANGED bootVars

\* callback of entry.createWriter: onwriteend and onerror are assigned, then
\* writer.write(new Blob([result.dataToSave], ...)) reads the global result
CreateWriterCallback ==
  /\ saveAs.stage = "creating"
  /\ IF saveAs.hasResult
     THEN saveAs' = [saveAs EXCEPT !.stage = "writing",
                                   !.writerCreated = TRUE, !.writes = 1]
     ELSE saveAs' = [saveAs EXCEPT !.stage = "threw",
                                   !.writerCreated = TRUE]
  /\ UNCHANGED bootVars

\* variant: the error test is missing
onwriteend_noErrorTest(event) ==
  IF event.length # event.position THEN "truncate" ELSE "getDisplayPath"

\* writer.onwriteend: what the handler does with one event
onwriteend(event) ==
  IF event.error THEN "return"
  ELSE IF event.length # event.position THEN "truncate"
  ELSE "getDisplayPath"

\* the host delivers a write-end event to writer.onwriteend
WriteEndEvent(event) ==
  /\ saveAs.stage = "writing"
  /\ Len(saveAs.ends) < MaxWriteEnds
  /\ LET k == Len(saveAs.ends) + 1
         d == onwriteend(event)
     IN saveAs' =
          [saveAs EXCEPT
             !.ends = Append(@, event),
             !.truncates = IF d = "truncate"
                           THEN Append(@, [end |-> k,
                                           position |-> event.position])
                           ELSE @,
             !.paths = IF d = "getDisplayPath"
                       THEN Append(@, [end |-> k, called |-> FALSE])
                       ELSE @]
  /\ UNCHANGED bootVars

\* callback of chrome.fileSystem.getDisplayPath:
\* promiseResolver.resolve({status: 'Saved', path, saveInPlace})
GetDisplayPathCallback(n) ==
  /\ n \in 1..Len(saveAs.paths)
  /\ ~saveAs.paths[n].called
  /\ saveAs' =
       [saveAs EXCEPT
          !.paths[n].called = TRUE,
          !.saved = IF saveAs.hasResolver
                    THEN Append(@, [end |-> saveAs.paths[n].end,
                                    status |-> "Saved"])
                    ELSE @]
  /\ UNCHANGED bootVars

\* the save button is used on a page whose bootstrap is left aside; the
\* globals result and promiseResolver / saveInPlace, which neither source
\* file defines, may or may not exist in the page
InitSave ==
  /\ InitBootstrap
  /\ origin # PrintOrigin
  /\ location = [search |-> << >>, top |-> TRUE]
  /\ hasTabs
  /\ hasAssert
  /\ host = [ tabId |-> 0, embedded |-> FALSE, originalUrl |-> <<"http", "a">>,
              tab |-> [present |-> TRUE, url |-> "taburl"],
              defaultZoomFactor |-> 100, zoom |-> 100 ]
  /\ saveAs \in { [NoSave EXCEPT !.hasResult = r, !.hasResolver = q] :
                    r \in BOOLEAN, q \in BOOLEAN }

NextSave ==
  \/ executeSaveAs
  \/ \E lastError \in LastErrors : writeUsingEntry(lastError)
  \/ CreateWriterCallback
  \/ \E event \in WriteEnds : WriteEndEvent(event)
  \/ \E n \in 1..MaxWriteEnds : GetDisplayPathCallback(n)

SpecSave == InitSave /\ [][NextSave]_vars

\* ---- history of host calls ----------------------------------------------
IssueIdx(call) ==
  { k \in 1..Len(log) : log[k].ev = "issue" /\ log[k].call = call }
CallbackIdx(call) ==
  { k \in 1..Len(log) : log[k].ev = "callback" /\ log[k].call = call }

\* the host calls a bootstrap run can issue, on either path
BootstrapCalls ==
  { "getStreamInfo", "getCurrent", "tabs.get", "setZoomSettings",
    "getZoomSettings", "getZoom" }

\* ---- claims ---------------------------------------------------------------

(* C1: whenever the mime-handler bootstrap has produced a descriptor for a
   stream info whose tabId is not -1 and whose embedded flag is false, the
   descriptor's zoomBehavior is Manage and setZoomSettings was issued exactly
   once, for that tab; it is never issued more than once. *)
C1_ManageConfiguresZoomOnce ==
  /\ Cardinality(IssueIdx("setZoomSettings")) <= 1
  /\ (browserApi.made /\ host.tabId # NoTabId /\ ~host.embedded)
       => /\ browserApi.zoomBehavior_ = MANAGE
          /\ Cardinality(IssueIdx("setZoomSettings")) = 1
          /\ \A k \in IssueIdx("setZoomSettings") : log[k].tabId = host.tabId

C1_Witness ==
  /\ browserApi.made
  /\ host.tabId # NoTabId
  /\ ~host.embedded
  /\ browserApi.zoomBehavior_ = MANAGE
  /\ CallbackIdx("setZoomSettings") # {}

(* C2: whenever the bootstrap has produced a descriptor for a stream info
   whose tabId is not -1 and whose embedded flag is true, the descriptor's
   zoomBehavior is PropagateParent. *)
C2_EmbeddedPropagatesParent ==
  (browserApi.made /\ host.tabId # NoTabId /\ host.embedded)
    => browserApi.zoomBehavior_ = PROPAGATE_PARENT

C2_Witness ==
  /\ browserApi.made
  /\ host.tabId # NoTabId
  /\ host.embedded
  /\ browserApi.zoomBehavior_ = PROPAGATE_PARENT

(* C3: whenever the descriptor has been delivered and the stream info's
   tabId is the no-tab sentinel -1, defaultZoom and initialZoom are both 1.0
   and zoomBehavior is None, whatever the embedded flag and whatever zoom
   factors the host would report. *)
C3_NoTabDefaults ==
  (browserApi.made /\ streamInfo.tabId = NoTabId)
    => /\ browserApi.defaultZoom_ = One
       /\ browserApi.initialZoom_ = One
       /\ browserApi.zoomBehavior_ = NONE

C3_Witness ==
  /\ browserApi.made
  /\ streamInfo.tabId = NoTabId
  /\ hasTabs
  /\ host.embedded
  /\ host.defaultZoomFactor # One
  /\ host.zoom # One
  /\ browserApi.defaultZoom_ = One

(* C4: on a descriptor whose zoomBehavior is None or PropagateParent every
   setZoom call ends in a failure (it returns no promise) and no
   chrome.tabs.setZoom host call is ever issued. *)
C4_SetZoomRefusedUnlessManage ==
  (browserApi.made /\ browserApi.zoomBehavior_ \in {NONE, PROPAGATE_PARENT})
    => /\ hostSetZoom = << >>
       /\ \A n \in 1..Len(setZoomCalls) : setZoomCalls[n].outcome = "throw"

C4_Witness ==
  /\ browserApi.made
  /\ hasAssert
  /\ browserApi.zoomBehavior_ = PROPAGATE_PARENT
  /\ Len(setZoomCalls) > 0
  /\ setZoomCalls[1].outcome = "throw"

(* C5: a registered listener is never invoked for a zoom-change event whose
   tabId differs from the descriptor's streamInfo.tabId. *)
C5_OtherTabEventsDiscarded ==
  \A k \in 1..Len(invoked) :
     /\ invoked[k].eventTab = invoked[k].ownTab
     /\ invoked[k].eventTab = streamInfo.tabId
     /\ events[invoked[k].event].info.tabId = streamInfo.tabId

C5_Witness ==
  /\ browserApi.made
  /\ \E e \in 1..Len(events) :
        /\ events[e].regs > 0
        /\ events[e].info.tabId # streamInfo.tabId
        /\ \A k \in 1..Len(invoked) : invoked[k].event # e

(* C6: the consumer of browser_api runs at most once, the BrowserApi
   constructor runs at most once, and whenever the consumer has run exactly
   one descriptor exists, with streamInfo, defaultZoom, initialZoom and
   zoomBehavior all set. *)
C6_OneDescriptorOneDelivery ==
  /\ consumerRuns <= 1
  /\ constructed <= 1
  /\ browserApi.made <=> constructed = 1
  /\ consumerRuns = 1 =>
       /\ constructed = 1
       /\ browserApi.made
       /\ browserApi.streamInfo_ = "streamInfo"
       /\ streamInfo.tabId = host.tabId
       /\ browserApi.defaultZoom_ \in HostZooms \cup {One}
       /\ browserApi.initialZoom_ \in HostZooms \cup {One}
       /\ browserApi.zoomBehavior_ \in {NONE, MANAGE, PROPAGATE_PARENT}
  /\ pc = "done" => consumerRuns = 1

C6_Witness ==
  /\ consumerRuns = 1
  /\ constructed = 1
  /\ pc = "done"
  /\ CallbackIdx("getZoom") # {}
  /\ CallbackIdx("getZoomSettings") # {}

(* C7: in the mime-handler bootstrap no zoom lookup (getZoomSettings,
   getZoom) is issued before the callback of every issued auxiliary call
   (tabs.get, setZoomSettings) has fired, and every auxiliary call is issued
   before the callback of any of them fires. *)
C7_AuxBeforeZoomLookups ==
  /\ \A z \in {"getZoomSettings", "getZoom"} : \A k \in IssueIdx(z) :
       \A a \in AuxNames : \A j \in IssueIdx(a) :
          /\ j < k
          /\ \E m \in CallbackIdx(a) : j < m /\ m < k
  /\ \A a \in AuxNames : \A m \in CallbackIdx(a) :
       \A b \in AuxNames : \A j \in IssueIdx(b) : j < m
  /\ (pending \cap AuxNames # {}) =>
        IssueIdx("getZoomSettings") \cup IssueIdx("getZoom") = {}

C7_Witness ==
  /\ IssueIdx("getZoom") # {}
  /\ IssueIdx("getZoomSettings") # {}
  /\ \E m \in CallbackIdx("setZoomSettings") :
        \E j \in CallbackIdx("tabs.get") : m < j

(* C8: the two zoom lookups are both issued before the callback of either
   fires, and a descriptor exists only when both lookups have resolved and
   neither is pending. *)
C8_BothLookupsBeforeConstruct ==
  /\ \A z \in {"getZoomSettings", "getZoom"} : \A m \in CallbackIdx(z) :
       /\ \E j \in IssueIdx("getZoomSettings") : j < m
       /\ \E j \in IssueIdx("getZoom") : j < m
  /\ browserApi.made =>
       /\ zoomFactors[1].resolved
       /\ zoomFactors[2].resolved
       /\ pending \cap {"getZoomSettings", "getZoom"} = {}
       /\ \A z \in {"getZoomSettings", "getZoom"} :
            Cardinality(IssueIdx(z)) = Cardinality(CallbackIdx(z))

C8_Witness ==
  /\ browserApi.made
  /\ \E m \in CallbackIdx("getZoom") :
        \E j \in CallbackIdx("getZoomSettings") : m < j

(* C9: when chrome.tabs exists and the stream info's tabId is a usable tab
   (tabId >= 0), the descriptor's defaultZoom is the defaultZoomFactor the
   host reports from getZoomSettings and its initialZoom is the factor the
   host reports from getZoom. *)
C9_ZoomFactorsFromHost ==
  (browserApi.made /\ hasTabs /\ streamInfo.tabId >= 0)
    => /\ browserApi.defaultZoom_ = host.defaultZoomFactor
       /\ browserApi.initialZoom_ = host.zoom

C9_Witness ==
  /\ browserApi.made
  /\ hasTabs
  /\ streamInfo.tabId >= 0
  /\ ~streamInfo.embedded
  /\ host.defaultZoomFactor = 125
  /\ host.zoom = 100
  /\ browserApi.zoomBehavior_ = MANAGE
  /\ browserApi.defaultZoom_ = 125
  /\ browserApi.initialZoom_ = 100

(* C10: the factory the page-global bootstrap runs is the one the origin
   selects: the print-preview factory when location.origin is the reserved
   print-preview origin, the mime-handler factory otherwise. *)
C10_PathChosenByOrigin ==
  path # "none" => path = createBrowserApi(origin)

(* C11: on the print-preview path the streamInfo built from the page has
   streamUrl and originalUrl equal to the page's query string (the text of
   location.search after its "?"; originalUrl carries the redirect marker
   once the consumer has appended it), empty responseHeaders, embedded true
   exactly when the page is not the top window, and every descriptor
   delivered has zoomBehavior None. *)
C11_PrintPreviewStreamInfo ==
  (path = "print") =>
    LET query == IF Len(location.search) = 0 THEN << >>
                 ELSE Tail(location.search)
    IN /\ streamInfo.streamUrl = query
       /\ ui.branch # "viewer" => streamInfo.originalUrl = query
       /\ ui.branch = "viewer" =>
            streamInfo.originalUrl = addRedirectedQueryParam(query)
       /\ streamInfo.responseHeaders = {}
       /\ streamInfo.embedded <=> ~location.top
       /\ browserApi.made => browserApi.zoomBehavior_ = NONE

C11_Witness ==
  /\ path = "print"
  /\ browserApi.made
  /\ CallbackIdx("getCurrent") # {}
  /\ streamInfo.tabId >= 0
  /\ location.search = <<"?", "file=report.csv">>
  /\ ~location.top
  /\ streamInfo.originalUrl = <<"file=report.csv">>
  /\ streamInfo.embedded

(* C12: once the descriptor is constructed no later step (setZoom and its
   callback, addZoomEventListener, zoom-change events, the download
   callback) reassigns its streamInfo reference, defaultZoom, initialZoom or
   zoomBehavior, and the step in which the consumer runs changes no field
   of streamInfo other than originalUrl, which is left alone or gets the
   redirect marker. *)
C12_DescriptorNeverReassigned ==
  [][ /\ browserApi.made =>
           (browserApi' = browserApi /\ streamInfo' = streamInfo)
      /\ (consumerRuns' # consumerRuns /\ pc = "zoom") =>
           /\ [streamInfo' EXCEPT !.originalUrl = streamInfo.originalUrl]
                = streamInfo
           /\ streamInfo'.originalUrl \in
                { streamInfo.originalUrl,
                  addRedirectedQueryParam(streamInfo.originalUrl) } ]_vars

C12_Witness ==
  /\ browserApi.made
  /\ browserApi.zoomBehavior_ = MANAGE
  /\ Len(setZoomCalls) > 0
  /\ setZoomCalls[1].outcome = "resolved"
  /\ Len(zoomListeners) > 0
  /\ Len(invoked) > 0
  /\ ui.branch = "viewer"
  /\ streamInfo.originalUrl = addRedirectedQueryParam(host.originalUrl)
  /\ browserApi.initialZoom_ = host.zoom
  /\ setZoomCalls[1].zoom # host.zoom

(* C13: in every descriptor either factory can produce, zoomBehavior Manage
   implies the stream has a tab (tabId is not -1) and is not embedded,
   PropagateParent implies it has a tab and is embedded, and zoomBehavior is
   exactly one of None, Manage, PropagateParent. *)
C13_BehaviorImpliesTabAndEmbedding ==
  browserApi.made =>
    /\ browserApi.zoomBehavior_ \in {NONE, MANAGE, PROPAGATE_PARENT}
    /\ browserApi.zoomBehavior_ = MANAGE =>
         (streamInfo.tabId # NoTabId /\ ~streamInfo.embedded)
    /\ browserApi.zoomBehavior_ = PROPAGATE_PARENT =>
         (streamInfo.tabId # NoTabId /\ streamInfo.embedded)

C13_Witness ==
  /\ browserApi.made
  /\ path = "mime"
  /\ browserApi.zoomBehavior_ = PROPAGATE_PARENT
  /\ streamInfo.tabId >= 0
  /\ streamInfo.embedded
  /\ CallbackIdx("tabs.get") # {}

(* C14: addZoomEventListener on a descriptor whose zoomBehavior is None
   registers nothing with the host, and no zoom-change event, not even one
   for the descriptor's own tab id, ever invokes the listener. *)
C14_NoneRegistersNothing ==
  (browserApi.made /\ browserApi.zoomBehavior_ = NONE)
    => /\ \A j \in 1..Len(zoomListeners) : ~zoomListeners[j].added
       /\ invoked = << >>
       /\ \A e \in 1..Len(events) : events[e].regs = 0

C14_Witness ==
  /\ browserApi.made
  /\ browserApi.zoomBehavior_ = NONE
  /\ path = "print"
  /\ streamInfo.tabId >= 0
  /\ Len(zoomListeners) > 0
  /\ \E e \in 1..Len(events) :
        /\ events[e].calls > 0
        /\ events[e].info.tabId = streamInfo.tabId
  /\ invoked = << >>

(* C15: when chrome.tabs is absent, a bootstrap that has started and has no
   host call of its own outstanding has delivered a descriptor whose two
   zoom factors are 1.0 and whose zoomBehavior is the one the path's logic
   chose, and no getZoomSettings or getZoom call was issued; this is stated
   for every stream info, a tabId other than -1 included. *)
C15_NoTabsStillDelivers ==
  (~hasTabs /\ pc # "init" /\ pending \cap BootstrapCalls = {})
    => /\ browserApi.made
       /\ consumerRuns = 1
       /\ browserApi.defaultZoom_ = One
       /\ browserApi.initialZoom_ = One
       /\ browserApi.zoomBehavior_ =
            (IF path = "print" THEN NONE ELSE zoomBehaviorFor(streamInfo))
       /\ IssueIdx("getZoomSettings") = {}
       /\ IssueIdx("getZoom") = {}

(* C16: once a tab lookup of the bootstrap (tabs.get or tabs.getCurrent) has
   called back with no tab object, tabUrl is unset, no error has been
   raised, and as soon as no bootstrap host call is outstanding the
   descriptor has been delivered. *)
C16_NoTabObjectIsNotAnError ==
  (~host.tab.present
   /\ (CallbackIdx("tabs.get") # {} \/ CallbackIdx("getCurrent") # {}))
    => /\ streamInfo.tabUrl = Unset
       /\ pc \notin {"threw", "rejected"}
       /\ (pending \cap BootstrapCalls = {}
             => browserApi.made /\ consumerRuns = 1)

(* C17: when every host call the bootstrap issued has called back (each
   callback fires exactly once, so none is outstanding), the descriptor has
   been constructed and the downstream continuation has run, on both paths
   and for every stream info and host answer. *)
C17_BootstrapCompletes ==
  (pc # "init" /\ pending \cap BootstrapCalls = {}
   /\ \A call \in BootstrapCalls :
        Cardinality(CallbackIdx(call)) = Cardinality(IssueIdx(call)))
    => constructed = 1 /\ browserApi.made /\ consumerRuns = 1

(* C18: the descriptor is constructed, and the downstream continuation run,
   only when every host call the bootstrap issued has called back: while
   one of them is outstanding there is no descriptor. *)
C18_NoDescriptorWithoutCallbacks ==
  (constructed > 0 \/ consumerRuns > 0 \/ browserApi.made)
    => /\ pending \cap BootstrapCalls = {}
       /\ \A call \in BootstrapCalls :
            Cardinality(CallbackIdx(call)) = Cardinality(IssueIdx(call))

C18_Witness ==
  /\ browserApi.made
  /\ consumerRuns = 1
  /\ path = "mime"
  /\ \A call \in BootstrapCalls \ {"getCurrent"} :
       Cardinality(CallbackIdx(call)) = 1

(* C19: in one bootstrap run every kind of host call is issued at most
   once, and the two tab lookups (tabs.get, tabs.getCurrent) are never both
   issued. *)
C19_NoHostCallReissued ==
  /\ \A call \in BootstrapCalls : Cardinality(IssueIdx(call)) <= 1
  /\ Cardinality(IssueIdx("tabs.get") \cup IssueIdx("getCurrent")) <= 1

C19_Witness ==
  /\ ~host.tab.present
  /\ pc = "done"
  /\ \A call \in BootstrapCalls \ {"getCurrent"} :
       Cardinality(IssueIdx(call)) = 1

(* C20: on a descriptor whose zoomBehavior is Manage or PropagateParent,
   every zoom-change event for the descriptor's own tab id invokes each
   listener registered before it exactly once, with the event's
   newZoomFactor, and the invocations follow the order of the events. *)
InvocationsOf(e) == { k \in 1..Len(invoked) : invoked[k].event = e }

C20_OwnTabEventsReachListener ==
  (browserApi.made
   /\ browserApi.zoomBehavior_ \in {MANAGE, PROPAGATE_PARENT})
    => /\ \A e \in 1..Len(events) :
            Cardinality(InvocationsOf(e)) =
              IF events[e].info.tabId = streamInfo.tabId
              THEN events[e].calls ELSE 0
       /\ \A k \in 1..Len(invoked) :
            invoked[k].factor = events[invoked[k].event].info.newZoomFactor
       /\ \A j, k \in 1..Len(invoked) :
            j < k => invoked[j].event <= invoked[k].event

C20_Witness ==
  /\ browserApi.made
  /\ browserApi.zoomBehavior_ = PROPAGATE_PARENT
  /\ Len(events) = 2
  /\ events[1].calls = 1
  /\ events[1].info.tabId = streamInfo.tabId
  /\ events[2].info.tabId = streamInfo.tabId
  /\ events[1].info.newZoomFactor # events[2].info.newZoomFactor
  /\ Len(invoked) = 2
  /\ invoked[1].factor = events[1].info.newZoomFactor
  /\ invoked[2].factor = events[2].info.newZoomFactor

(* C21: on a descriptor whose zoomBehavior is Manage every setZoom(z) call
   issues exactly one chrome.tabs.setZoom host call, for the descriptor's
   own tab id and with factor z, and returns a promise that is resolved
   only by that call's callback. *)
C21_SetZoomIssuesOneHostCall ==
  (browserApi.made /\ browserApi.zoomBehavior_ = MANAGE)
    => /\ Len(hostSetZoom) = Len(setZoomCalls)
       /\ \A n \in 1..Len(setZoomCalls) :
            /\ setZoomCalls[n].outcome \in {"promise", "resolved"}
            /\ n <= Len(hostSetZoom)
            /\ hostSetZoom[n] = [ tabId |-> streamInfo.tabId,
                                  zoom |-> setZoomCalls[n].zoom ]

(* C22: in the mime-handler bootstrap, when getStreamInfo answers the
   no-tab sentinel -1, zoomBehavior stays None, no per-tab host call
   (tabs.get, setZoomSettings, getZoomSettings, getZoom) is issued, and the
   descriptor is delivered in the task of the getStreamInfo callback. *)
PerTabCalls == {"tabs.get", "setZoomSettings", "getZoomSettings", "getZoom"}

C22_SentinelIssuesNoTabCall ==
  (path = "mime" /\ host.tabId = NoTabId /\ CallbackIdx("getStreamInfo") # {})
    => /\ zoomBehavior = NONE
       /\ \A call \in PerTabCalls : IssueIdx(call) = {}
       /\ browserApi.made
       /\ browserApi.zoomBehavior_ = NONE
       /\ consumerRuns = 1

C22_Witness ==
  /\ path = "mime"
  /\ hasTabs
  /\ host.tabId = NoTabId
  /\ ~host.embedded
  /\ host.tab.present
  /\ browserApi.made
  /\ Len(log) >= 2

(* C23: when zoomBehavior is PropagateParent no zoom state is ever set on
   the host: no setZoomSettings call is issued by the bootstrap and no
   chrome.tabs.setZoom call by any setZoom attempt; the host calls issued
   are only getStreamInfo, the tab lookup and the two zoom reads. *)
C23_PropagateParentNeverSetsZoom ==
  (zoomBehavior = PROPAGATE_PARENT
   \/ (browserApi.made /\ browserApi.zoomBehavior_ = PROPAGATE_PARENT))
    => /\ IssueIdx("setZoomSettings") = {}
       /\ hostSetZoom = << >>
       /\ \A k \in 1..Len(log) :
            log[k].call \in {"getStreamInfo", "tabs.get", "getZoomSettings",
                             "getZoom", "download", "download.nocallback"}

C23_Witness ==
  /\ browserApi.made
  /\ browserApi.zoomBehavior_ = PROPAGATE_PARENT
  /\ hasAssert
  /\ streamInfo.tabId >= 0
  /\ IssueIdx("getZoom") # {}
  /\ Len(setZoomCalls) > 0
  /\ Len(zoomListeners) > 0
  /\ zoomListeners[1].added

(* C24: on the print-preview path, when chrome.tabs exists the bootstrap
   issues tabs.getCurrent and issues the zoom lookups only after its
   callback, for the tab id that callback returned, with tabUrl set from
   the returned tab; when chrome.tabs is absent tabId stays -1 and the
   descriptor is created in the starting task with no host call issued. *)
C24_PrintPreviewWaitsForCurrentTab ==
  (path = "print")
    => /\ hasTabs =>
            /\ Cardinality(IssueIdx("getCurrent")) = 1
            /\ \A k \in 1..Len(log) :
                 (log[k].ev = "issue"
                  /\ log[k].call \in {"getZoomSettings", "getZoom"})
                   => /\ \E j \in CallbackIdx("getCurrent") : j < k
                      /\ log[k].tabId = host.tabId
                      /\ streamInfo.tabId = host.tabId
                      /\ streamInfo.tabUrl = host.tab.url
            /\ CallbackIdx("getCurrent") = {}
                 => streamInfo.tabId = NoTabId /\ ~browserApi.made
       /\ ~hasTabs =>
            /\ streamInfo.tabId = NoTabId
            /\ browserApi.made
            /\ \A call \in BootstrapCalls : IssueIdx(call) = {}

C24_Witness ==
  /\ path = "print"
  /\ hasTabs
  /\ host.tab.present
  /\ host.tabId >= 0
  /\ browserApi.made
  /\ streamInfo.tabId = host.tabId
  /\ streamInfo.tabUrl = host.tab.url
  /\ CallbackIdx("getZoom") # {}
  /\ browserApi.initialZoom_ = host.zoom

(* C26: for fixed host answers the delivered descriptor (streamInfo with
   tabUrl, defaultZoom, initialZoom, zoomBehavior) is a function of those
   answers alone: it is the same whichever of tabs.get / setZoomSettings
   and of getZoomSettings / getZoom calls back first. *)
C26_DescriptorIndependentOfCallbackOrder ==
  (browserApi.made /\ path = "mime")
    => /\ streamInfo.tabId = host.tabId
       /\ streamInfo.embedded = host.embedded
       /\ streamInfo.tabUrl =
            (IF host.tabId # NoTabId /\ host.tab.present
             THEN host.tab.url ELSE Unset)
       /\ browserApi.defaultZoom_ =
            (IF host.tabId >= 0 THEN host.defaultZoomFactor ELSE One)
       /\ browserApi.initialZoom_ =
            (IF host.tabId >= 0 THEN host.zoom ELSE One)
       /\ browserApi.zoomBehavior_ =
            (IF host.tabId = NoTabId THEN NONE
             ELSE IF host.embedded THEN PROPAGATE_PARENT ELSE MANAGE)
       /\ constructed = 1

C26_Witness ==
  /\ browserApi.made
  /\ path = "mime"
  /\ host.tab.present
  /\ host.defaultZoomFactor # host.zoom
  /\ \E a \in CallbackIdx("setZoomSettings") :
       \E b \in CallbackIdx("tabs.get") : a < b
  /\ \E a \in CallbackIdx("getZoom") :
       \E b \in CallbackIdx("getZoomSettings") : a < b

(* C27: the bootstrap's two tests of tab validity agree for every tabId the
   host can return: a descriptor has zoomBehavior Manage or PropagateParent
   exactly when its zoom factors were read from the host, and tabs.get and
   setZoomSettings are issued only for a tabId the zoom lookups treat as
   usable (tabId >= 0). *)
C27_TabValidityTestsAgree ==
  /\ browserApi.made
       => ((browserApi.zoomBehavior_ \in {MANAGE, PROPAGATE_PARENT})
            <=> (CallbackIdx("getZoomSettings") # {}
                 /\ CallbackIdx("getZoom") # {}))
  /\ \A k \in 1..Len(log) :
       log[k].call \in {"tabs.get", "setZoomSettings"} => log[k].tabId >= 0

(* C28: the marker the consumer appends is recognised on the next load:
   isAlreadyRedirected holds of every URL addRedirectedQueryParam returned,
   and a URL without the text edgeRedirected is never taken as redirected. *)
C28_MarkerAlwaysRecognised ==
  (consumerRuns = 1)
    => /\ ui.branch = "viewer"
            => /\ ui.viewerSrc = addRedirectedQueryParam(host.originalUrl)
               /\ isAlreadyRedirected(ui.viewerSrc)
       /\ indexOf(host.originalUrl, "edgeRedirected") = -1
            => /\ ~isAlreadyRedirected(host.originalUrl)
               /\ ui.branch # "download"

(* C29: the consumer takes exactly one of three branches per page load: a
   non-web originalUrl is only handed to the fallback; an already
   redirected web URL is only downloaded and the tab is removed only after
   the download's callback; any other web URL gets the marker appended to
   streamInfo.originalUrl exactly once and the viewer frame is created from
   the marked URL. *)
C29_ConsumerTakesOneBranch ==
  /\ consumerRuns = 0 => ui.branch = "none" /\ ~ui.tabRemoved
  /\ consumerRuns > 0 =>
       /\ consumerRuns = 1
       /\ ui.branch \in {"fallback", "download", "viewer"}
       /\ ui.branch = "fallback" <=> ~IsWebURL(host.originalUrl)
       /\ ui.branch = "download" <=>
            (IsWebURL(host.originalUrl)
             /\ isAlreadyRedirected(host.originalUrl))
       /\ ui.branch = "fallback" =>
            /\ ui.viewerSrc = << >>
            /\ ~ui.tabRemoved
            /\ streamInfo.originalUrl = host.originalUrl
            /\ IssueIdx("download") = {}
            /\ Cardinality(IssueIdx("download.nocallback")) = 1
       /\ ui.branch = "download" =>
            /\ ui.viewerSrc = << >>
            /\ streamInfo.originalUrl = host.originalUrl
            /\ IssueIdx("download.nocallback") = {}
            /\ Cardinality(IssueIdx("download")) = 1
            /\ ui.tabRemoved <=> CallbackIdx("download") # {}
       /\ ui.branch = "viewer" =>
            /\ ~ui.tabRemoved
            /\ IssueIdx("download") = {}
            /\ IssueIdx("download.nocallback") = {}
            /\ Len(streamInfo.originalUrl) = Len(host.originalUrl) + 2
            /\ SubSeq(streamInfo.originalUrl, 1, Len(host.originalUrl))
                 = host.originalUrl
            /\ streamInfo.originalUrl[Len(streamInfo.originalUrl)]
                 = "edgeRedirected"
            /\ ui.viewerSrc = streamInfo.originalUrl

C29_Witness ==
  /\ consumerRuns = 1
  /\ ui.branch = "download"
  /\ ui.tabRemoved
  /\ streamInfo.tabId >= 0
  /\ CallbackIdx("download") # {}

(* C25: run side by side on the same host answers the two variants of the
   program (main.js, part_000) take the fallback for the same URLs and, for
   every originalUrl that starts with http, their consumers do the same:
   download and remove the tab when already redirected, otherwise append
   the marker and show the viewer; they differ in the fallback alone. *)
C25_VariantsDifferInFallbackOnly ==
  /\ consumerRuns = 0 => ui000 = NoUi000
  /\ consumerRuns > 0 =>
       /\ ui000.branch = ui.branch
       /\ ui000.viewerSrc = ui.viewerSrc
       /\ ui000.tabRemoved = ui.tabRemoved
       /\ ui000.originalUrl = streamInfo.originalUrl
       /\ ui.branch = "download" =>
            ui000.call = "download" /\ IssueIdx("download") # {}
       /\ ui.branch = "viewer" =>
            /\ ui000.call = "none"
            /\ IssueIdx("download") = {}
            /\ IssueIdx("download.nocallback") = {}
       /\ ui.branch = "fallback" =>
            /\ ~IsWebURL(streamInfo.originalUrl)
            /\ ui000.call = "fetch"
            /\ IssueIdx("download.nocallback") # {}

C25_Witness ==
  /\ consumerRuns = 1
  /\ ui.branch = "download"
  /\ ui000.branch = "download"
  /\ ui.tabRemoved
  /\ ui000.tabRemoved
  /\ browserApi.zoomBehavior_ = MANAGE

(* C30: in the save-as writer, after any sequence of write-end events: when
   chooseEntry reported an error no writer is created and nothing is
   written; a write-end event carrying an error neither truncates nor
   reports success; Saved is reported only for an error-free write-end at
   which the writer's length equals the seek position, and a write-end at
   which they differ issues a truncate to the seek position instead. *)
TruncatesOf(k) ==
  { j \in 1..Len(saveAs.truncates) : saveAs.truncates[j].end = k }
PathsOf(k) == { j \in 1..Len(saveAs.paths) : saveAs.paths[j].end = k }
SavedOf(k) == { j \in 1..Len(saveAs.saved) : saveAs.saved[j].end = k }

C30_SavedOnlyAfterCleanWriteEnd ==
  /\ saveAs.lastError # "none"
       => /\ ~saveAs.writerCreated
          /\ saveAs.writes = 0
          /\ saveAs.ends = << >>
          /\ saveAs.truncates = << >>
          /\ saveAs.paths = << >>
          /\ saveAs.saved = << >>
  /\ \A k \in 1..Len(saveAs.ends) :
       LET e == saveAs.ends[k] IN
       /\ e.error
            => TruncatesOf(k) = {} /\ PathsOf(k) = {} /\ SavedOf(k) = {}
       /\ (~e.error /\ e.length # e.position)
            => /\ Cardinality(TruncatesOf(k)) = 1
               /\ \A j \in TruncatesOf(k) :
                    saveAs.truncates[j].position = e.position
               /\ PathsOf(k) = {}
               /\ SavedOf(k) = {}
       /\ (~e.error /\ e.length = e.position)
            => TruncatesOf(k) = {} /\ Cardinality(PathsOf(k)) = 1
  /\ \A j \in 1..Len(saveAs.saved) :
       /\ saveAs.saved[j].end \in 1..Len(saveAs.ends)
       /\ ~saveAs.ends[saveAs.saved[j].end].error
       /\ saveAs.ends[saveAs.saved[j].end].length
            = saveAs.ends[saveAs.saved[j].end].position
       /\ Cardinality(SavedOf(saveAs.saved[j].end)) = 1

C30_Witness ==
  /\ Len(saveAs.ends) = 2
  /\ ~saveAs.ends[1].error
  /\ saveAs.ends[1].length # saveAs.ends[1].position
  /\ Len(saveAs.truncates) = 1
  /\ ~saveAs.ends[2].error
  /\ saveAs.ends[2].length = saveAs.ends[2].position
  /\ Len(saveAs.saved) = 1
  /\ saveAs.saved[1].end = 2

====
